---- MODULE Spec2Model ----
(***************************************************************************)
(* Trace-context propagation of barney.ci/go-otel: the uber-trace-id       *)
(* codec (uber.go) over a text-map carrier, and its composition with the   *)
(* W3C traceparent codec (setup.go, WithGeneralPropagatorSetup); the       *)
(* message-header carriers (kafka.go); the environment carrier             *)
(* (environ.go); and the provider setup (setup.go).                        *)
(*                                                                         *)
(* Each part has its own variables and its own specification; a part's     *)
(* actions leave the variables of the other parts alone.                   *)
(*                                                                         *)
(* Strings are sequences of one-character strings; identifiers are         *)
(* sequences of bytes (0..255) of their real width.                        *)
(***************************************************************************)
EXTENDS Integers, Sequences, FiniteSets, TLC

VARIABLES
    carrier,    \* the text-map carrier: a function from the keys it holds to values
    ctx,        \* the span context held by the caller's context.Context
    call,       \* the most recent propagator call: its name and its arguments
    prev,       \* the call before that one
    hdrs,       \* the header sequence of a message-header carrier
    kind,       \* which message-header carrier it is: "kafka" or "franz"
    kop,        \* the most recent call on the message-header carrier
    sets,       \* the value of the most recent Set of each key on that carrier
    race,       \* two callers of Set on one carrier: where each is in its call
    environ,    \* the process environment: a sequence of name and value pairs
    eop,        \* the most recent call on the environment carrier or of transcode
    launch,     \* the MapCarrier the process was launched with, if any
    nsets,      \* how many EnvironCarrier.Set calls the process has made
    setup       \* the state of a call of OtelSetup or JaegerSetup

codecVars == <<carrier, ctx, call, prev>>
kafkaVars == <<hdrs, kind, kop, sets, race>>
envVars == <<environ, eop, launch, nsets>>
setupVars == <<setup>>

vars == <<codecVars, kafkaVars, envVars, setupVars>>

-----------------------------------------------------------------------------
(* Strings and bytes *)

\* A string literal as a sequence of characters.
Chars(s) == [i \in 1..Len(s) |-> SubSeq(s, i, i)]

\* n copies of the character c.
Repeat(c, n) == [i \in 1..n |-> c]

\* true iff the character c occurs in s at or after position i.
RECURSIVE ContainsFrom(_, _, _)
ContainsFrom(s, c, i) ==
    IF i > Len(s) THEN FALSE
    ELSE IF s[i] = c THEN TRUE
    ELSE ContainsFrom(s, c, i + 1)

\* a & b on bytes.
RECURSIVE BitAnd(_, _)
BitAnd(a, b) ==
    IF a = 0 \/ b = 0 THEN 0
    ELSE (a % 2) * (b % 2) + 2 * BitAnd(a \div 2, b \div 2)

-----------------------------------------------------------------------------
(* encoding/hex, as uber.go uses it *)

hextable == Chars("0123456789abcdef")

LowerHex == {hextable[i] : i \in 1..16}

UpperHexVal == [c \in {"A", "B", "C", "D", "E", "F"} |->
                  CASE c = "A" -> 10 [] c = "B" -> 11 [] c = "C" -> 12
                    [] c = "D" -> 13 [] c = "E" -> 14 [] c = "F" -> 15]

\* hex.fromHexChar: the value of a hex digit of either case, 16 for any other
\* character.
fromHexChar(c) ==
    IF c \in LowerHex THEN (CHOOSE i \in 1..16 : hextable[i] = c) - 1
    ELSE IF c \in DOMAIN UpperHexVal THEN UpperHexVal[c]
    ELSE 16

\* hex.DecodeString: an error for a character that is no hex digit and for a
\* string of odd length, the decoded bytes otherwise.
DecodeString(s) ==
    IF \E i \in 1..Len(s) : fromHexChar(s[i]) > 15
      THEN [err |-> TRUE, data |-> <<>>]
    ELSE IF Len(s) % 2 = 1
      THEN [err |-> TRUE, data |-> <<>>]
    ELSE [err  |-> FALSE,
          data |-> [i \in 1..(Len(s) \div 2) |->
                       16 * fromHexChar(s[2 * i - 1]) + fromHexChar(s[2 * i])]]

\* hex.EncodeToString: two lower-case digits per byte.
EncodeToString(b) ==
    [i \in 1..(2 * Len(b)) |->
        IF i % 2 = 1 THEN hextable[(b[(i + 1) \div 2] \div 16) + 1]
        ELSE hextable[(b[i \div 2] % 16) + 1]]

-----------------------------------------------------------------------------
(* go.opentelemetry.io/otel/trace values, as uber.go uses them *)

TraceIDSize == 16
SpanIDSize == 8

\* A mask that keeps every flag bit.
FlagsSampled_AllBits == 2 * 128 - 1

\* trace.FlagsSampled.
FlagsSampled == 1

ZeroID(size) == [i \in 1..size |-> 0]

\* trace.SpanContext{}: the zero value.
EmptySpanContext ==
    [traceID |-> ZeroID(TraceIDSize), spanID |-> ZeroID(SpanIDSize),
     flags |-> 0, remote |-> FALSE]

\* SpanContext.IsValid: a non-zero trace-id and a non-zero span-id.
IsValid(sc) ==
    /\ \E i \in 1..Len(sc.traceID) : sc.traceID[i] # 0
    /\ \E i \in 1..Len(sc.spanID) : sc.spanID[i] # 0

\* trace.ContextWithRemoteSpanContext followed by SpanContextFromContext.
ContextWithRemoteSpanContext(c, sc) == [sc EXCEPT !.remote = TRUE]

\* TraceFlags.String.
TraceFlagsString(f) == EncodeToString(<<f>>)

-----------------------------------------------------------------------------
(* propagation.TextMapCarrier (a map carrier) *)

uberHeader == "uber-trace-id"

EmptyCarrier == <<>>

Get(c, k) == IF k \in DOMAIN c THEN c[k] ELSE <<>>

Set(c, k, v) == [x \in (DOMAIN c) \cup {k} |-> IF x = k THEN v ELSE c[x]]

-----------------------------------------------------------------------------
(* uber.go: the uber-trace-id codec *)

\* The first position at or after i of s that holds no character of [0-9a-f]
\* (Len(s) + 1 when there is none).
RECURSIVE HexRunEnd(_, _)
HexRunEnd(s, i) ==
    IF i > Len(s) THEN i
    ELSE IF s[i] \notin LowerHex THEN i
    ELSE HexRunEnd(s, i + 1)

\* A group [0-9a-f]{1,max} of s that starts at i and is followed by the
\* character sep: the position of sep, 0 when there is no such group.  No
\* separator of the pattern is a hex digit, so the group is the whole run.
GroupThen(s, i, max, sep) ==
    LET e == HexRunEnd(s, i) IN
    IF e - i >= 1 /\ e - i <= max /\ e <= Len(s) /\ s[e] = sep THEN e ELSE 0

\* SuffixMatches without the optional suffix: the pattern ends at FLAGS.
SuffixMatches_NoSuffix(s, i) == i = Len(s) + 1

\* The tail (?:-.*)?$ at position i of s: nothing, or a dash and then any
\* characters but a line feed, up to the end of the text.
SuffixMatches(s, i) ==
    \/ i = Len(s) + 1
    \/ /\ i <= Len(s)
       /\ s[i] = "-"
       /\ ~ContainsFrom(s, "\n", i + 1)

\* uberHdrRegExp.FindStringSubmatch(h): <<>> when h does not match, the whole
\* match and the four groups otherwise.
FindStringSubmatch(h) ==
    LET e1 == GroupThen(h, 1, 32, ":")
        e2 == IF e1 = 0 THEN 0 ELSE GroupThen(h, e1 + 1, 16, ":")
        e3 == IF e2 = 0 THEN 0 ELSE GroupThen(h, e2 + 1, 16, ":")
        e4 == IF e3 = 0 THEN 0 ELSE HexRunEnd(h, e3 + 1)
    IN  IF e3 = 0 THEN <<>>
        ELSE IF e4 - (e3 + 1) < 1 \/ e4 - (e3 + 1) > 2 THEN <<>>
        ELSE IF ~SuffixMatches(h, e4) THEN <<>>
        ELSE << h,
                SubSeq(h, 1, e1 - 1),
                SubSeq(h, e1 + 1, e2 - 1),
                SubSeq(h, e2 + 1, e3 - 1),
                SubSeq(h, e3 + 1, e4 - 1) >>

\* decodeHexID(s, size): the bytes of s left-padded with zeros to size; an
\* error when s does not decode, is longer than size, or is zero.
decodeHexID(s, size) ==
    LET d == DecodeString(s) IN
    IF d.err THEN [err |-> TRUE, ret |-> <<>>]
    ELSE IF size < Len(d.data) THEN [err |-> TRUE, ret |-> <<>>]
    ELSE LET pad == size - Len(d.data)
             allZeroes == \A i \in 1..Len(d.data) : d.data[i] = 0
         IN  IF allZeroes THEN [err |-> TRUE, ret |-> <<>>]
             ELSE [err |-> FALSE,
                   ret |-> [i \in 1..size |->
                              IF i > pad THEN d.data[i - pad] ELSE 0]]

\* UberTraceContext.extract(carrier).
extract(c) ==
    LET h == Get(c, uberHeader)
        matches == FindStringSubmatch(h)
    IN
    IF h = <<>> THEN EmptySpanContext
    ELSE IF Len(matches) < 5 THEN EmptySpanContext
    ELSE
      LET traceID == decodeHexID(matches[2], TraceIDSize)
          spanID == decodeHexID(matches[3], SpanIDSize)
          flags == DecodeString(matches[5])
      IN
      IF traceID.err THEN EmptySpanContext
      ELSE IF spanID.err THEN EmptySpanContext
      ELSE IF flags.err THEN EmptySpanContext
      ELSE
        LET sc == [traceID |-> traceID.ret,
                   spanID  |-> spanID.ret,
                   flags   |-> BitAnd(flags.data[1], FlagsSampled),
                   remote  |-> FALSE]
        IN  IF ~IsValid(sc) THEN EmptySpanContext ELSE sc

\* Extract that trusts the pattern: it pads and attaches what the groups
\* decode to, and checks neither the decoded ids nor the span context for
\* zero.
Extract_NoZeroCheck(c, car) ==
    LET matches == FindStringSubmatch(Get(car, uberHeader))
        PadTo(d, size) ==
            [i \in 1..size |-> IF i > size - Len(d) THEN d[i - (size - Len(d))] ELSE 0]
    IN
    IF Len(matches) < 5 THEN c
    ELSE
      LET t == DecodeString(matches[2])
          sp == DecodeString(matches[3])
          f == DecodeString(matches[5])
      IN
      IF t.err \/ sp.err \/ f.err THEN c
      ELSE IF Len(t.data) > TraceIDSize \/ Len(sp.data) > SpanIDSize THEN c
      ELSE [traceID |-> PadTo(t.data, TraceIDSize),
            spanID  |-> PadTo(sp.data, SpanIDSize),
            flags   |-> BitAnd(f.data[1], FlagsSampled),
            remote  |-> TRUE]

\* Extract that attaches whatever extract returned, valid or not.
Extract_AlwaysAttach(c, car) == ContextWithRemoteSpanContext(c, extract(car))

\* Extract that keeps a valid span context the context already holds.
Extract_KeepExisting(c, car) ==
    LET sc == extract(car) IN
    IF IsValid(c) \/ ~IsValid(sc) THEN c ELSE ContextWithRemoteSpanContext(c, sc)

\* UberTraceContext.Extract(ctx, carrier): the span context of the returned
\* context.
Extract(c, car) ==
    LET sc == extract(car) IN
    IF ~IsValid(sc) THEN c ELSE ContextWithRemoteSpanContext(c, sc)

\* fmt.Sprintf("%016x", 0).
ParentSpanID == Repeat("0", 16)

\* HeaderOf with the flags formatted by %x: one digit, as Jaeger clients
\* write them.
HeaderOf_OneDigitFlags(sc) ==
    EncodeToString(sc.traceID) \o <<":">> \o EncodeToString(sc.spanID)
        \o <<":">> \o ParentSpanID \o <<":">>
        \o <<hextable[BitAnd(sc.flags, FlagsSampled) + 1]>>

\* HeaderOf without the mask on the flags.
HeaderOf_UnmaskedFlags(sc) ==
    EncodeToString(sc.traceID) \o <<":">> \o EncodeToString(sc.spanID)
        \o <<":">> \o ParentSpanID \o <<":">> \o TraceFlagsString(sc.flags)

\* The header value Inject formats for the span context sc.
HeaderOf(sc) ==
    LET flags == BitAnd(sc.flags, FlagsSampled) IN
    EncodeToString(sc.traceID) \o <<":">> \o EncodeToString(sc.spanID)
        \o <<":">> \o ParentSpanID \o <<":">> \o TraceFlagsString(flags)

\* Inject without the validity check.
Inject_Unchecked(c, car) == Set(car, uberHeader, HeaderOf(c))

\* Inject that leaves an uber-trace-id value the carrier already holds.
Inject_KeepExisting(c, car) ==
    IF ~IsValid(c) \/ uberHeader \in DOMAIN car THEN car
    ELSE Set(car, uberHeader, HeaderOf(c))

\* UberTraceContext.Inject(ctx, carrier): the carrier afterwards.
Inject(c, car) ==
    IF ~IsValid(c) THEN car
    ELSE Set(car, uberHeader, HeaderOf(c))

\* UberTraceContext.Fields.
Fields == {uberHeader}

\* The index flags[0] of extract panics when the FLAGS group decodes to no
\* byte at all.
extractPanics(c) ==
    LET matches == FindStringSubmatch(Get(c, uberHeader)) IN
    /\ Len(matches) >= 5
    /\ ~decodeHexID(matches[2], TraceIDSize).err
    /\ ~decodeHexID(matches[3], SpanIDSize).err
    /\ ~DecodeString(matches[5]).err
    /\ Len(DecodeString(matches[5]).data) < 1

-----------------------------------------------------------------------------
(* The upstream codecs that WithGeneralPropagatorSetup registers before       *)
(* UberTraceContext, and the composite propagator                             *)

traceparentHeader == "traceparent"

\* The positions of the dashes of s.
Dashes(s) == {i \in 1..Len(s) : s[i] = "-"}

\* propagation.TraceContext.Extract: version 00, a 32-digit trace-id, a
\* 16-digit span-id and a 2-digit flags byte, all lower-case hex, joined by
\* dashes; the flags are masked to the sampled bit.
TraceContextExtract(c, car) ==
    LET h == Get(car, traceparentHeader)
        tid == DecodeString(SubSeq(h, 4, 35))
        sid == DecodeString(SubSeq(h, 37, 52))
        fl == DecodeString(SubSeq(h, 54, 55))
        sc == [traceID |-> tid.data, spanID |-> sid.data,
               flags |-> BitAnd(fl.data[1], FlagsSampled), remote |-> TRUE]
    IN
    IF Len(h) # 55 \/ Dashes(h) # {3, 36, 53} THEN c
    ELSE IF \E i \in (1..55) \ {3, 36, 53} : h[i] \notin LowerHex THEN c
    ELSE IF SubSeq(h, 1, 2) # <<"0", "0">> THEN c
    ELSE IF fl.data[1] > 2 THEN c
    ELSE IF ~IsValid(sc) THEN c
    ELSE sc

\* propagation.Baggage.Extract: it reads the baggage header into the
\* context's baggage and leaves the span context alone.
BaggageExtract(c, car) == c

\* The composite of WithGeneralPropagatorSetup: Extract runs the codecs in
\* the order they were registered, each on the context the one before it
\* returned.
CompositeExtract(c, car) ==
    Extract(TraceContextExtract(BaggageExtract(c, car), car), car)

-----------------------------------------------------------------------------
(* Inputs *)

\* How many digits beyond the full width of a group the inputs go.
MaxOverlong == 1
\* The longest vendor suffix (after its dash) the inputs hold.
MaxSuffixLen == 2

ExTraceHex == Chars("ee2ec3bb2402eb08625a76f762fb73bb")
ShortTraceHex == Chars("5775daa08825b4b9")
ExSpanHex == Chars("5c301b3cb0f66539")
ExParentHex == Chars("114d5e5bcc8bc4c8")

\* The low-order n digits of full; beyond its width, full with 1s before it.
GroupOfLen(full, n) ==
    IF n <= Len(full) THEN SubSeq(full, Len(full) - n + 1, Len(full))
    ELSE Repeat("1", n - Len(full)) \o full

\* The groups of every length up to width + MaxOverlong: a non-zero value,
\* the value 1 behind leading zeros, and zero.
GroupsUpTo(full) ==
    UNION {{GroupOfLen(full, n), Repeat("0", n - 1) \o <<"1">>, Repeat("0", n)} :
              n \in 1..(Len(full) + MaxOverlong)}

\* FLAGS groups: every single digit f, every 0f, and some other bytes.
FlagGroups ==
    {<<hextable[i]>> : i \in 1..16} \cup {<<"0", hextable[i]>> : i \in 1..16}
        \cup {Chars("ff"), Chars("fe"), Chars("10"), Chars("83"), Chars("001")}

FewFlagGroups == {Chars("1"), Chars("01"), Chars("00")}

SuffixAlphabet == {"a", "1", "-", ":", "\n"}

\* The strings over SuffixAlphabet of length at most n.
RECURSIVE StringsUpTo(_)
StringsUpTo(n) ==
    IF n = 0 THEN {<<>>}
    ELSE LET shorter == StringsUpTo(n - 1) IN
         shorter \cup {Append(t, c) : t \in shorter, c \in SuffixAlphabet}

\* What follows the FLAGS group: nothing, or a dash and a suffix.
Suffixes == {<<>>} \cup {<<"-">> \o t : t \in StringsUpTo(MaxSuffixLen)}
FewSuffixes == {<<>>, Chars("-"), Chars("-a1")}

Header(t, sp, p, f, tail) ==
    t \o <<":">> \o sp \o <<":">> \o p \o <<":">> \o f \o tail

\* Values that are not of the four-group form.
Malformed ==
    { Chars("garbage"),
      Chars("ee2ec3bb2402eb08625a76f762fb73bb"),
      Chars("ee2ec3bb2402eb08625a76f762fb73bb:5c301b3cb0f66539:01"),
      Chars("EE2EC3BB2402EB08625A76F762FB73BB:5c301b3cb0f66539:0:01"),
      Chars("ee2ec3bb2402eb08625a76f762fb73bb:5C301B3CB0F66539:0:01"),
      Chars(":5c301b3cb0f66539:0:01"),
      Chars("ee2ec3bb2402eb08625a76f762fb73bb::0:01"),
      Chars("ee2ec3bb2402eb08625a76f762fb73bb:5c301b3cb0f66539::01"),
      Chars("ee2ec3bb2402eb08625a76f762fb73bb:5c301b3cb0f66539:0:"),
      Chars("ee2ec3bb2402eb08625a76f762fb73bb:5c301b3cb0f66539:0:01x"),
      Chars("ee2ec3bb2402eb08625a76f762fb73bb:5c301b3cb0f66539:0:01\n"),
      Chars("ee2ec3bb2402eb08625a76f762fb73bb:5c301b3cb0f66539:0:01:"),
      Chars(" ee2ec3bb2402eb08625a76f762fb73bb:5c301b3cb0f66539:0:01"),
      Chars("ee2ec3bb2402eb08625a76f762fb73bb:5c301b3cb0f66539:11111111111111111:01"),
      Chars("00-ee2ec3bb2402eb08625a76f762fb73bb-5c301b3cb0f66539-01") }

\* The uber-trace-id values a peer may send.
Headers ==
    {Header(t, sp, <<"0">>, f, <<>>) :
        t \in GroupsUpTo(ExTraceHex), sp \in {ExSpanHex, Chars("0539")},
        f \in FewFlagGroups}
    \cup
    {Header(t, sp, ExParentHex, f, <<>>) :
        t \in {ExTraceHex, ShortTraceHex}, sp \in GroupsUpTo(ExSpanHex),
        f \in FewFlagGroups}
    \cup
    {Header(t, ExSpanHex, p, f, tail) :
        t \in {ExTraceHex, Chars("00")}, p \in {<<"0">>, ExParentHex},
        f \in FlagGroups, tail \in FewSuffixes}
    \cup
    {Header(t, ExSpanHex, <<"0">>, f, tail) :
        t \in {ExTraceHex, Chars("00")}, f \in FewFlagGroups, tail \in Suffixes}
    \cup Malformed \cup {<<>>}

\* The values used together with a traceparent header.
FewHeaders ==
    { Chars("5775daa08825b4b9:5c301b3cb0f66539:114d5e5bcc8bc4c8:01"),
      Chars("5775daa08825b4b9:5c301b3cb0f66539:114d5e5bcc8bc4c8:00"),
      Chars("5775daa08825b4b9:5c301b3cb0f66539:114d5e5bcc8bc4c8:1"),
      Chars("775daa08825b4b9:5c301b3cb0f66539:114d5e5bcc8bc4c8:01"),
      Chars("00:5c301b3cb0f66539:0:01"),
      Chars("garbage") }

\* The traceparent values a peer may send.
Traceparents ==
    { Chars("00-ee2ec3bb2402eb08625a76f762fb73bb-00f067aa0ba902b7-01"),
      Chars("00-ee2ec3bb2402eb08625a76f762fb73bb-00f067aa0ba902b7-00"),
      Chars("00-00000000000000000000000000000000-00f067aa0ba902b7-01"),
      Chars("00-ee2ec3bb2402eb08625a76f762fb73bb-00f067aa0ba902b7"),
      Chars("garbage") }

\* Keys of other codecs and of the application.
OtherKeys == {"baggage", "x-request-id"}
OtherValues == {Chars("a=1"), <<>>}

FlagBytes == {0, 1, 2, 3, 8, 9, 10, 11, 254, 255}

\* The span contexts a tracer may have put in the context.
Contexts ==
    [traceID : {DecodeString(ExTraceHex).data,
                ZeroID(TraceIDSize - 8) \o DecodeString(ShortTraceHex).data,
                ZeroID(TraceIDSize)},
     spanID  : {DecodeString(ExSpanHex).data,
                ZeroID(SpanIDSize - 1) \o <<1>>,
                ZeroID(SpanIDSize)},
     flags   : FlagBytes,
     remote  : {FALSE}]

\* The contexts an inbound request is handled in.
PriorContexts ==
    {sc \in Contexts : sc.traceID[1] # 0 /\ sc.spanID[1] = 0 /\ sc.flags \in {3}}
        \cup {EmptySpanContext}

-----------------------------------------------------------------------------
(* The state machine *)

NoCall == [op |-> "none", ctx |-> EmptySpanContext, carrier |-> EmptyCarrier,
           outcome |-> "none"]

\* No propagator call has been made.
CodecIdle ==
    /\ carrier = EmptyCarrier
    /\ ctx = EmptySpanContext
    /\ call = NoCall
    /\ prev = NoCall

\* There is no message-header carrier.
KafkaIdle ==
    /\ hdrs = <<>>
    /\ kind = "none"
    /\ kop = [op |-> "none"]
    /\ sets = <<>>
    /\ race = [on |-> FALSE]

\* The environment carrier is not in use.
EnvIdle ==
    /\ environ = <<>>
    /\ eop = [op |-> "none"]
    /\ launch = <<>>
    /\ nsets = 0

\* No setup call is in progress.
SetupIdle == setup = [pc |-> "idle"]

Init ==
    /\ CodecIdle
    /\ KafkaIdle
    /\ EnvIdle
    /\ SetupIdle

\* The tracer starts a span: the context holds its span context.
StartSpan(sc) ==
    /\ call.op = "none"
    /\ ctx = EmptySpanContext
    /\ uberHeader \notin DOMAIN carrier
    /\ traceparentHeader \notin DOMAIN carrier
    /\ ctx' = sc
    /\ UNCHANGED <<carrier, call, prev>>
    /\ UNCHANGED <<kafkaVars, envVars, setupVars>>

\* A peer's request arrives with an uber-trace-id header.
Receive(h) ==
    /\ call.op = "none"
    /\ ctx \in PriorContexts
    /\ uberHeader \notin DOMAIN carrier
    /\ carrier # EmptyCarrier => h \in FewHeaders
    /\ carrier' = Set(carrier, uberHeader, h)
    /\ UNCHANGED <<ctx, call, prev>>
    /\ UNCHANGED <<kafkaVars, envVars, setupVars>>

\* A peer's request arrives with a traceparent header.
ReceiveTraceparent(h) ==
    /\ call.op = "none"
    /\ ctx \in PriorContexts
    /\ traceparentHeader \notin DOMAIN carrier
    /\ uberHeader \in DOMAIN carrier => carrier[uberHeader] \in FewHeaders
    /\ DOMAIN carrier \subseteq {uberHeader}
    /\ carrier' = Set(carrier, traceparentHeader, h)
    /\ UNCHANGED <<ctx, call, prev>>
    /\ UNCHANGED <<kafkaVars, envVars, setupVars>>

\* The carrier holds a key of another codec or of the application.
ReceiveOther(k, v) ==
    /\ call.op = "none"
    /\ carrier = EmptyCarrier
    /\ carrier' = Set(carrier, k, v)
    /\ UNCHANGED <<ctx, call, prev>>
    /\ UNCHANGED <<kafkaVars, envVars, setupVars>>

\* UberTraceContext.Inject(ctx, carrier).
DoInject ==
    /\ call.op = "none"
    /\ carrier' = Inject(ctx, carrier)
    /\ call' = [op |-> "Inject", ctx |-> ctx, carrier |-> carrier,
                outcome |-> "returned"]
    /\ prev' = call
    /\ UNCHANGED ctx
    /\ UNCHANGED <<kafkaVars, envVars, setupVars>>

\* UberTraceContext.Extract(ctx, carrier).
DoExtract ==
    /\ call.op \in {"none", "Inject"}
    /\ prev.op = "none"
    /\ IF extractPanics(carrier)
         THEN /\ call' = [op |-> "Extract", ctx |-> ctx, carrier |-> carrier,
                          outcome |-> "panic"]
              /\ UNCHANGED ctx
         ELSE /\ call' = [op |-> "Extract", ctx |-> ctx, carrier |-> carrier,
                          outcome |-> "returned"]
              /\ ctx' = Extract(ctx, carrier)
    /\ prev' = call
    /\ UNCHANGED carrier
    /\ UNCHANGED <<kafkaVars, envVars, setupVars>>

\* The Extract of the composite propagator of WithGeneralPropagatorSetup.
DoCompositeExtract ==
    /\ call.op = "none"
    /\ IF extractPanics(carrier)
         THEN /\ call' = [op |-> "CompositeExtract", ctx |-> ctx,
                          carrier |-> carrier, outcome |-> "panic"]
              /\ UNCHANGED ctx
         ELSE /\ call' = [op |-> "CompositeExtract", ctx |-> ctx,
                          carrier |-> carrier, outcome |-> "returned"]
              /\ ctx' = CompositeExtract(ctx, carrier)
    /\ prev' = call
    /\ UNCHANGED carrier
    /\ UNCHANGED <<kafkaVars, envVars, setupVars>>

Next ==
    \/ \E sc \in Contexts : StartSpan(sc)
    \/ \E h \in Headers : Receive(h)
    \/ \E h \in Traceparents : ReceiveTraceparent(h)
    \/ \E k \in OtherKeys, v \in OtherValues : ReceiveOther(k, v)
    \/ DoInject
    \/ DoExtract
    \/ DoCompositeExtract

Spec == Init /\ [][Next]_vars

-----------------------------------------------------------------------------
(* What the properties read off a header value, independently of the codec *)

\* The first position at or after i of s that holds the character c
\* (Len(s) + 1 when there is none).
RECURSIVE IndexFrom(_, _, _)
IndexFrom(s, c, i) ==
    IF i > Len(s) THEN i
    ELSE IF s[i] = c THEN i
    ELSE IndexFrom(s, c, i + 1)

\* The fields of SubSeq(s, i, Len(s)) between colons.
RECURSIVE FieldsFrom(_, _)
FieldsFrom(s, i) ==
    LET e == IndexFrom(s, ":", i) IN
    IF e > Len(s) THEN <<SubSeq(s, i, Len(s))>>
    ELSE <<SubSeq(s, i, e - 1)>> \o FieldsFrom(s, e + 1)

ColonFields(s) == FieldsFrom(s, 1)

Digits == {"0", "1", "2", "3", "4", "5", "6", "7", "8", "9",
           "a", "b", "c", "d", "e", "f"}

\* g is between 1 and max lower-case hex digits.
IsHexGroup(g, max) ==
    /\ Len(g) >= 1
    /\ Len(g) <= max
    /\ \A i \in 1..Len(g) : g[i] \in Digits

AllZeroDigits(g) == Len(g) >= 1 /\ \A i \in 1..Len(g) : g[i] = "0"

\* h is TRACEID:SPANID:PARENTSPANID:FLAGS with nothing after it.
FourGroupForm(h) ==
    LET f == ColonFields(h) IN
    /\ Len(f) = 4
    /\ IsHexGroup(f[1], 32)
    /\ IsHexGroup(f[2], 16)
    /\ IsHexGroup(f[3], 16)
    /\ IsHexGroup(f[4], 2)

DigitValue(c) ==
    CASE c = "0" -> 0 [] c = "1" -> 1 [] c = "2" -> 2 [] c = "3" -> 3
      [] c = "4" -> 4 [] c = "5" -> 5 [] c = "6" -> 6 [] c = "7" -> 7
      [] c = "8" -> 8 [] c = "9" -> 9 [] c = "a" -> 10 [] c = "b" -> 11
      [] c = "c" -> 12 [] c = "d" -> 13 [] c = "e" -> 14 [] c = "f" -> 15

\* g written out with zeros on the left to n digits.
PadLeft(g, n) == Repeat("0", n - Len(g)) \o g

\* The numeric value of the group g as size bytes, most significant first.
ValueBytes(g, size) ==
    LET d == PadLeft(g, 2 * size) IN
    [i \in 1..size |-> 16 * DigitValue(d[2 * i - 1]) + DigitValue(d[2 * i])]

\* The uber-trace-id value the most recent call was given.
CallHeader == Get(call.carrier, uberHeader)

Extracted == call.op = "Extract" /\ call.outcome = "returned"

-----------------------------------------------------------------------------
(* Properties *)

\* C1: round trip.  When a valid span context C is injected into an empty
\* carrier and that carrier is then extracted, the context returned is valid,
\* has C's trace-id and span-id, and has C's flags AND 0x01.
C1_RoundTrip ==
    ( /\ Extracted
      /\ prev.op = "Inject"
      /\ prev.carrier = EmptyCarrier
      /\ prev.ctx.traceID # ZeroID(16)
      /\ prev.ctx.spanID # ZeroID(8) )
    => /\ ctx.traceID # ZeroID(16)
       /\ ctx.spanID # ZeroID(8)
       /\ ctx.traceID = prev.ctx.traceID
       /\ ctx.spanID = prev.ctx.spanID
       /\ ctx.flags = prev.ctx.flags % 2

\* A context with every flag bit set, and a trace-id with leading zero bytes,
\* has gone through Inject and Extract and came back with the sampled bit only.
C1_Witness ==
    /\ Extracted
    /\ prev.op = "Inject"
    /\ prev.carrier = EmptyCarrier
    /\ prev.ctx.flags = 255
    /\ prev.ctx.traceID[1] = 0
    /\ prev.ctx.traceID # ZeroID(16)
    /\ prev.ctx.spanID # ZeroID(8)
    /\ ctx.remote
    /\ ctx.flags = 1

\* The text Inject is said to write: 32 digits, 16 digits, sixteen zeros and
\* the FLAGS text fl.
WireText(sc, fl) ==
    [i \in 1..32 |-> LET b == sc.traceID[(i + 1) \div 2] IN
        Chars("0123456789abcdef")[(IF i % 2 = 1 THEN b \div 16 ELSE b % 16) + 1]]
    \o <<":">> \o
    [i \in 1..16 |-> LET b == sc.spanID[(i + 1) \div 2] IN
        Chars("0123456789abcdef")[(IF i % 2 = 1 THEN b \div 16 ELSE b % 16) + 1]]
    \o Chars(":0000000000000000:") \o fl

Injected ==
    /\ call.op = "Inject"
    /\ call.ctx.traceID # ZeroID(16)
    /\ call.ctx.spanID # ZeroID(8)

IsExample(sc) ==
    /\ sc.traceID = <<238, 46, 195, 187, 36, 2, 235, 8, 98, 90, 118, 247, 98, 251, 115, 187>>
    /\ sc.spanID = <<92, 48, 27, 60, 176, 246, 101, 57>>
    /\ sc.flags % 2 = 1

\* C2 as stated: Inject of a valid, sampled span context writes
\* TRACEID:SPANID:0000000000000000:1, the FLAGS field being the single digit 1.
C2_InjectWritesOneDigitFlags ==
    (Injected /\ call.ctx.flags % 2 = 1)
    => /\ uberHeader \in DOMAIN carrier
       /\ carrier[uberHeader] = WireText(call.ctx, <<"1">>)
       /\ IsExample(call.ctx) =>
            carrier[uberHeader] =
              Chars("ee2ec3bb2402eb08625a76f762fb73bb:5c301b3cb0f66539:0000000000000000:1")

\* C2 amended: Inject of a valid span context writes
\* TRACEID:SPANID:0000000000000000:FLAGS with FLAGS the two digits 01 when the
\* context is sampled and 00 when it is not; the example gives ...:01.
C2_InjectWireFormat ==
    Injected
    => /\ uberHeader \in DOMAIN carrier
       /\ carrier[uberHeader] =
            WireText(call.ctx, IF call.ctx.flags % 2 = 1 THEN Chars("01") ELSE Chars("00"))
       /\ IsExample(call.ctx) =>
            carrier[uberHeader] =
              Chars("ee2ec3bb2402eb08625a76f762fb73bb:5c301b3cb0f66539:0000000000000000:01")

\* The example context, with flag bits beside the sampled one, has been injected.
C2_Witness ==
    /\ Injected
    /\ IsExample(call.ctx)
    /\ call.ctx.flags = 11
    /\ Len(carrier[uberHeader]) = 69

\* The header the most recent call was given is of the four-group form and
\* its TRACEID and SPANID groups are not zero.
NonZeroFourGroup(h) ==
    /\ FourGroupForm(h)
    /\ ~AllZeroDigits(ColonFields(h)[1])
    /\ ~AllZeroDigits(ColonFields(h)[2])

\* h with its TRACEID and SPANID groups written out to 32 and 16 digits.
FullWidth(h) ==
    LET f == ColonFields(h) IN
    PadLeft(f[1], 32) \o <<":">> \o PadLeft(f[2], 16) \o <<":">> \o f[3]
        \o <<":">> \o f[4]

\* C3 as stated, on headers whose FLAGS group has two digits: for a header
\* of the four-group form whose TRACEID group has 1 to 32 digits and whose
\* SPANID group has 1 to 16, both non-zero, Extract returns a valid context
\* whose ids are the groups' values left-padded with zeros, the same context
\* as for the header with both groups at full width.
C3_ShortIdsAreLeftPadded ==
    ( /\ Extracted
      /\ NonZeroFourGroup(CallHeader)
      /\ Len(ColonFields(CallHeader)[4]) = 2 )
    => /\ ctx.traceID = ValueBytes(ColonFields(CallHeader)[1], 16)
       /\ ctx.spanID = ValueBytes(ColonFields(CallHeader)[2], 8)
       /\ ctx = Extract(call.ctx,
                        Set(call.carrier, uberHeader, FullWidth(CallHeader)))

\* C4 as stated, on headers whose identifier groups have an even number of
\* digits: for a header of the four-group form with non-zero ids and a FLAGS
\* group of one digit f, Extract returns a valid context, the one it returns
\* for the same header with the FLAGS group 0f.
C4_OneDigitFlagsAsTwo ==
    LET f == ColonFields(CallHeader)
        two == f[1] \o <<":">> \o f[2] \o <<":">> \o f[3] \o <<":", "0">> \o f[4]
    IN  ( /\ Extracted
          /\ NonZeroFourGroup(CallHeader)
          /\ Len(f[1]) % 2 = 0
          /\ Len(f[2]) % 2 = 0
          /\ Len(f[4]) = 1 )
        => /\ ctx.traceID # ZeroID(16)
           /\ ctx.spanID # ZeroID(8)
           /\ ctx.remote
           /\ ctx = Extract(call.ctx, Set(call.carrier, uberHeader, two))

\* The TRACEID group or the SPANID group of h is made of zeros only.
HasZeroIdGroup(h) ==
    LET f == ColonFields(h) IN
    \/ AllZeroDigits(f[1])
    \/ Len(f) >= 2 /\ AllZeroDigits(f[2])

\* C5: when the TRACEID group or the SPANID group of the header is made of
\* zeros only, whatever its length and the other groups, Extract produces no
\* context: it returns the context it was given, and none is valid when the
\* caller had none.
C5_ZeroIdsRejected ==
    (Extracted /\ HasZeroIdGroup(CallHeader))
    => /\ ctx = call.ctx
       /\ call.ctx = EmptySpanContext =>
            (ctx.traceID = ZeroID(16) /\ ctx.spanID = ZeroID(8) /\ ~ctx.remote)

\* Extract has run on a header that is well formed but for a zero SPANID
\* group of two digits.
C5_Witness ==
    /\ Extracted
    /\ FourGroupForm(CallHeader)
    /\ ColonFields(CallHeader)[1] = ExTraceHex
    /\ ColonFields(CallHeader)[2] = Chars("00")
    /\ ColonFields(CallHeader)[4] = Chars("01")
    /\ ctx = EmptySpanContext

\* The header up to its first dash, and what follows that dash.
BeforeDash(h) == SubSeq(h, 1, IndexFrom(h, "-", 1) - 1)
AfterDash(h) == SubSeq(h, IndexFrom(h, "-", 1) + 1, Len(h))
HasDash(h) == IndexFrom(h, "-", 1) <= Len(h)
HasLineFeed(t) == \E i \in 1..Len(t) : t[i] = "\n"

\* C6 as stated: for a header h of the four-group form and any suffix s,
\* Extract on h, a dash and s returns what Extract on h alone returns.
C6_AnySuffixIgnored ==
    (Extracted /\ HasDash(CallHeader) /\ FourGroupForm(BeforeDash(CallHeader)))
    => ctx = Extract(call.ctx,
                     Set(call.carrier, uberHeader, BeforeDash(CallHeader)))

\* C6 amended: for a header h of the four-group form and any suffix s that
\* holds no line feed, Extract on h, a dash and s returns what Extract on h
\* alone returns.
C6_SuffixIgnored ==
    ( /\ Extracted
      /\ HasDash(CallHeader)
      /\ FourGroupForm(BeforeDash(CallHeader))
      /\ ~HasLineFeed(AfterDash(CallHeader)) )
    => ctx = Extract(call.ctx,
                     Set(call.carrier, uberHeader, BeforeDash(CallHeader)))

\* Extract has returned a context for a header with the suffix ":-".
C6_Witness ==
    /\ Extracted
    /\ HasDash(CallHeader)
    /\ FourGroupForm(BeforeDash(CallHeader))
    /\ AfterDash(CallHeader) = <<":", "-">>
    /\ call.ctx = EmptySpanContext
    /\ ctx.remote
    /\ ctx.flags = 1

\* The FLAGS group of h: its fourth field up to the suffix.
FlagsGroup(h) == BeforeDash(ColonFields(h)[4])

\* C7: whenever Extract returns a new context for a header with flags byte
\* b, the context's flags are b AND 0x01; and whenever Inject writes a header
\* for a valid context with flags byte b, its FLAGS field is the byte
\* b AND 0x01.
C7_OnlySampledBit ==
    /\ (Extracted /\ ctx # call.ctx)
         => ctx.flags = ValueBytes(FlagsGroup(CallHeader), 1)[1] % 2
    /\ Injected
         => LET f == ColonFields(carrier[uberHeader]) IN
            /\ Len(f) = 4
            /\ IsHexGroup(f[4], 2)
            /\ ValueBytes(f[4], 1)[1] = call.ctx.flags % 2

\* Extract has returned a context for a header whose flags byte is 0x83.
C7_Witness ==
    /\ Extracted
    /\ ctx # call.ctx
    /\ FlagsGroup(CallHeader) = Chars("83")
    /\ ctx.flags = 1

\* h matches TRACEID:SPANID:PARENTSPANID:FLAGS with an optional suffix of a
\* dash and characters other than a line feed.
OfGrammar(h) ==
    /\ FourGroupForm(BeforeDash(h))
    /\ HasDash(h) => ~HasLineFeed(AfterDash(h))

\* C8: when the uber-trace-id value is absent, empty, not of the grammar, or
\* has a zero identifier, Extract returns without a panic and returns the
\* context it was given.
C8_MalformedContained ==
    ( /\ call.op = "Extract"
      /\ \/ uberHeader \notin DOMAIN call.carrier
         \/ CallHeader = <<>>
         \/ ~OfGrammar(CallHeader)
         \/ HasZeroIdGroup(CallHeader) )
    => /\ call.outcome = "returned"
       /\ ctx = call.ctx

\* Extract has run, on a value that is not of the grammar, in a context that
\* held a valid span context.
C8_Witness ==
    /\ call.op = "Extract"
    /\ CallHeader \in Malformed
    /\ call.ctx.traceID # ZeroID(16)
    /\ call.ctx.spanID # ZeroID(8)
    /\ ctx = call.ctx

\* C9: Inject of a span context with a zero trace-id or a zero span-id
\* leaves the carrier's keys and values as they were.
C9_InvalidInjectIsNoOp ==
    ( /\ call.op = "Inject"
      /\ \/ call.ctx.traceID = ZeroID(16)
         \/ call.ctx.spanID = ZeroID(8) )
    => carrier = call.carrier

\* Inject has run with a zero span-id behind a non-zero trace-id, on a carrier
\* that held an uber-trace-id value.
C9_Witness ==
    /\ call.op = "Inject"
    /\ call.ctx.traceID # ZeroID(16)
    /\ call.ctx.spanID = ZeroID(8)
    /\ uberHeader \in DOMAIN call.carrier
    /\ carrier = call.carrier

\* C10: the Extract of the composite of Baggage, TraceContext and
\* UberTraceContext returns the context of uber-trace-id when both headers
\* yield a valid context, and the context of the one header that yields a
\* valid context when only one does.
C10_LaterCodecWins ==
    LET tp == TraceContextExtract(EmptySpanContext, call.carrier)
        ub == Extract(EmptySpanContext, call.carrier)
    IN  (call.op = "CompositeExtract" /\ call.outcome = "returned")
        => /\ (IsValid(tp) /\ IsValid(ub)) => ctx = ub
           /\ (IsValid(tp) /\ ~IsValid(ub)) => ctx = tp
           /\ (~IsValid(tp) /\ IsValid(ub)) => ctx = ub

\* The composite has extracted from a carrier whose two headers name
\* different traces, into a context that held a span context of its own.
C10_Witness ==
    /\ call.op = "CompositeExtract"
    /\ call.ctx.traceID # ZeroID(16)
    /\ call.ctx.spanID # ZeroID(8)
    /\ TraceContextExtract(EmptySpanContext, call.carrier).traceID
         = ValueBytes(ExTraceHex, 16)
    /\ CallHeader = Chars("5775daa08825b4b9:5c301b3cb0f66539:114d5e5bcc8bc4c8:01")
    /\ ctx.traceID = ValueBytes(ShortTraceHex, 16)
    /\ ctx.spanID = ValueBytes(ExSpanHex, 8)

\* C11: Inject writes no key but uber-trace-id, the key Fields returns, and
\* leaves every other key and value of the carrier as it was; the value it
\* writes is the one it writes into an empty carrier; and a write of another
\* key before Inject or after it gives the same carrier.
C11_InjectTouchesOnlyItsKey ==
    call.op = "Inject"
    => /\ Fields = {"uber-trace-id"}
       /\ DOMAIN carrier \subseteq (DOMAIN call.carrier) \cup {"uber-trace-id"}
       /\ \A k \in (DOMAIN call.carrier) \ {"uber-trace-id"} :
            k \in DOMAIN carrier /\ carrier[k] = call.carrier[k]
       /\ Injected =>
            /\ "uber-trace-id" \in DOMAIN carrier
            /\ carrier["uber-trace-id"]
                 = Inject(call.ctx, EmptyCarrier)["uber-trace-id"]
       /\ \A k \in OtherKeys \cup {traceparentHeader}, v \in OtherValues :
            Set(carrier, k, v) = Inject(call.ctx, Set(call.carrier, k, v))

\* Inject has run with a valid span context on a carrier that held a key of
\* another codec and an uber-trace-id value of a peer, which it replaced.
C11_Witness ==
    /\ Injected
    /\ "baggage" \in DOMAIN call.carrier
    /\ "uber-trace-id" \in DOMAIN call.carrier
    /\ carrier["uber-trace-id"] # call.carrier["uber-trace-id"]
    /\ carrier["baggage"] = call.carrier["baggage"]

(***************************************************************************)
(* The message-header carriers (kafka.go).  kafkaCarrier holds a           *)
(* []kafka.Header that Headers() returns, franzKafkaCarrier a              *)
(* []kgo.RecordHeader; a header is a Key string and a Value byte slice.    *)
(***************************************************************************)

\* A nil byte slice, as the Value of a header built without one.
NilBytes == [isNil |-> TRUE, data |-> ""]

\* []byte(v): a fresh slice, never nil, holding the bytes of v.
ByteSlice(v) == [isNil |-> FALSE, data |-> v]

\* string(b): the bytes of b; the empty string for a nil slice.
StringOf(b) == IF b.isNil THEN "" ELSE b.data

\* The range loops of Get and Set: the index of the first header from i on
\* whose Key is k, 0 when the loop runs to its end.
RECURSIVE FirstFrom(_, _, _)
FirstFrom(H, k, i) ==
    IF i > Len(H) THEN 0
    ELSE IF H[i].Key = k THEN i
    ELSE FirstFrom(H, k, i + 1)

\* The index of the last header whose Key is k, 0 when there is none.
RECURSIVE LastUpTo(_, _, _)
LastUpTo(H, k, i) ==
    IF i = 0 THEN 0
    ELSE IF H[i].Key = k THEN i
    ELSE LastUpTo(H, k, i - 1)

\* Get that returns the value of the last header with the key.
kafkaCarrier_Get_LastMatch(H, k) ==
    LET i == LastUpTo(H, k, Len(H))
    IN  IF i = 0 THEN "" ELSE StringOf(H[i].Value)

\* kafkaCarrier.Get(k).
kafkaCarrier_Get(H, k) ==
    LET i == FirstFrom(H, k, 1)
    IN  IF i = 0 THEN "" ELSE StringOf(H[i].Value)

\* Set that replaces the value of every header with the key.
kafkaCarrier_Set_EveryMatch(H, k, v) ==
    IF FirstFrom(H, k, 1) = 0
    THEN Append(H, [Key |-> k, Value |-> ByteSlice(v)])
    ELSE [j \in 1..Len(H) |->
            IF H[j].Key = k THEN [H[j] EXCEPT !.Value = ByteSlice(v)] ELSE H[j]]

\* kafkaCarrier.Set(k, v): the header sequence afterwards.
kafkaCarrier_Set(H, k, v) ==
    LET i == FirstFrom(H, k, 1)
    IN  IF i # 0
        THEN [H EXCEPT ![i].Value = ByteSlice(v)]
        ELSE Append(H, [Key |-> k, Value |-> ByteSlice(v)])

\* kafkaCarrier.Keys(): the Key of every header, in order, duplicates kept.
kafkaCarrier_Keys(H) == [j \in 1..Len(H) |-> H[j].Key]

\* franzKafkaCarrier.Get(k).
franzKafkaCarrier_Get(H, k) ==
    LET i == FirstFrom(H, k, 1)
    IN  IF i = 0 THEN "" ELSE StringOf(H[i].Value)

\* franzKafkaCarrier.Set(k, v): the header sequence afterwards.
franzKafkaCarrier_Set(H, k, v) ==
    LET i == FirstFrom(H, k, 1)
    IN  IF i # 0
        THEN [H EXCEPT ![i].Value = ByteSlice(v)]
        ELSE Append(H, [Key |-> k, Value |-> ByteSlice(v)])

\* franzKafkaCarrier.Keys().
franzKafkaCarrier_Keys(H) == [j \in 1..Len(H) |-> H[j].Key]

(***************************************************************************)
(* The message-header carrier as a state machine: a carrier is built over  *)
(* the headers of a message, and its methods are called one at a time.     *)
(***************************************************************************)

\* The most headers a message holds when the carrier is built.
MaxInitHeaders == 2
\* The most Set calls made on one carrier.
MaxSets == 2

HeaderKeys == {"uber-trace-id", "traceparent"}
HeaderStrings == {"", "v1", "v2"}
SetStrings == {"v1", "v2"}
HeaderValues == {NilBytes} \cup {ByteSlice(v) : v \in SetStrings}

\* The headers a message can arrive with: any sequence, duplicates allowed.
InitialHeaders ==
    UNION {[1..n -> [Key : HeaderKeys, Value : HeaderValues]] : n \in 0..MaxInitHeaders}

\* NewKafkaCarrier(&hdrs) and NewFranzKafkaCarrier(&hdrs).
InitKafka ==
    /\ CodecIdle
    /\ EnvIdle
    /\ SetupIdle
    /\ hdrs \in InitialHeaders
    /\ kind \in {"kafka", "franz"}
    /\ kop = [op |-> "none"]
    /\ sets = <<>>
    /\ race = [on |-> FALSE]

KafkaSet(k, v) ==
    /\ Len(sets) < MaxSets
    /\ hdrs' = IF kind = "kafka" THEN kafkaCarrier_Set(hdrs, k, v)
               ELSE franzKafkaCarrier_Set(hdrs, k, v)
    /\ kop' = [op |-> "Set", k |-> k, v |-> v, before |-> hdrs]
    /\ sets' = Append(sets, [k |-> k, v |-> v])
    /\ UNCHANGED <<kind, race, codecVars, envVars, setupVars>>

KafkaGet(k) ==
    /\ kop' = [op |-> "Get", k |-> k,
               ret |-> IF kind = "kafka" THEN kafkaCarrier_Get(hdrs, k)
                       ELSE franzKafkaCarrier_Get(hdrs, k)]
    /\ UNCHANGED <<hdrs, kind, sets, race, codecVars, envVars, setupVars>>

KafkaKeys ==
    /\ kop' = [op |-> "Keys",
               ret |-> IF kind = "kafka" THEN kafkaCarrier_Keys(hdrs)
                       ELSE franzKafkaCarrier_Keys(hdrs)]
    /\ UNCHANGED <<hdrs, kind, sets, race, codecVars, envVars, setupVars>>

NextKafka ==
    \/ \E k \in HeaderKeys, v \in HeaderStrings : KafkaSet(k, v)
    \/ \E k \in HeaderKeys : KafkaGet(k)
    \/ KafkaKeys

SpecKafka == InitKafka /\ [][NextKafka]_vars

\* The indices of the headers of H whose Key is k.
IndicesOf(H, k) == {j \in 1..Len(H) : H[j].Key = k}

\* i is the least member of the non-empty set S of numbers.
IsLeast(i, S) == i \in S /\ \A j \in S : i <= j

\* C12: after Set(k, v) on either carrier, if a header had key k the
\* sequence has the same length and the same headers except that the first
\* header with key k holds v; otherwise it is the old sequence with the one
\* header (k, v) appended; and Keys() is no shorter than before.
C12_SetPostState ==
    kop.op = "Set"
    => LET H == kop.before
           S == IndicesOf(H, kop.k)
           new == [Key |-> kop.k, Value |-> ByteSlice(kop.v)]
       IN  /\ S # {} =>
                /\ Len(hdrs) = Len(H)
                /\ \A j \in 1..Len(H) :
                     hdrs[j] = IF IsLeast(j, S) THEN new ELSE H[j]
           /\ S = {} => hdrs = H \o <<new>>
           /\ Len(kafkaCarrier_Keys(hdrs)) >= Len(kafkaCarrier_Keys(H))
           /\ Len(franzKafkaCarrier_Keys(hdrs)) >= Len(franzKafkaCarrier_Keys(H))

\* Set has replaced the value of the first of two headers with the same key,
\* whose second header holds another value.
C12_Witness ==
    /\ kop.op = "Set"
    /\ Cardinality(IndicesOf(kop.before, kop.k)) = 2
    /\ \E i, j \in IndicesOf(hdrs, kop.k) :
         i < j /\ hdrs[i].Value # hdrs[j].Value /\ hdrs[i].Value # kop.before[i].Value

\* The value of the most recent Set of key k, given that there was one.
LastSetValue(k) ==
    LET S == {j \in 1..Len(sets) : sets[j].k = k}
        last == CHOOSE j \in S : \A i \in S : i <= j
    IN  sets[last].v

WasSet(k) == \E j \in 1..Len(sets) : sets[j].k = k

\* C13: Get(k) on either carrier returns the value of the first header with
\* key k, and if Set(k, .) was ever called on the carrier, the value of the
\* most recent such call, whatever headers the carrier was built over.
C13_GetReadsLastSet ==
    kop.op = "Get"
    => LET S == IndicesOf(hdrs, kop.k)
       IN  /\ \A i \in S : IsLeast(i, S) => kop.ret = StringOf(hdrs[i].Value)
           /\ S = {} => kop.ret = ""
           /\ WasSet(kop.k) => kop.ret = LastSetValue(kop.k)

\* Get has returned the later of two different values set for a key that the
\* carrier held twice, with other values, when it was built.
C13_Witness ==
    /\ kop.op = "Get"
    /\ Len(sets) = 2
    /\ sets[1].k = kop.k /\ sets[2].k = kop.k
    /\ sets[1].v # sets[2].v
    /\ kop.ret = sets[2].v
    /\ Cardinality(IndicesOf(hdrs, kop.k)) = 2
    /\ \E j \in IndicesOf(hdrs, kop.k) : StringOf(hdrs[j].Value) # kop.ret

(***************************************************************************)
(* The environment carrier (environ.go).  Keys, names and values are       *)
(* sequences of one-character strings.  The process environment is the     *)
(* sequence of its variables, in the order os.Environ lists them.          *)
(***************************************************************************)

EnvironCarrierPrefix == Chars("OTELTEXTMAP_")

LowerLetters == Chars("abcdefghijklmnopqrstuvwxyz")
UpperLetters == Chars("ABCDEFGHIJKLMNOPQRSTUVWXYZ")

\* 'a' <= c && c <= 'z', and 'A' <= c && c <= 'Z'.
IsLower(c) == \E i \in 1..26 : LowerLetters[i] = c
IsUpper(c) == \E i \in 1..26 : UpperLetters[i] = c

\* bytes.ToUpper on ASCII: a lower-case letter becomes its upper-case
\* letter, every other byte stays.
ToUpper(s) ==
    [i \in 1..Len(s) |->
        IF IsLower(s[i])
        THEN UpperLetters[CHOOSE j \in 1..26 : LowerLetters[j] = s[i]]
        ELSE s[i]]

NoError(str) == [err |-> FALSE, s |-> str]
Errorf == [err |-> TRUE, s |-> <<>>]

\* The loop of transcode from byte i on, ret being the bytes kept so far.
RECURSIVE transcodeFrom(_, _, _, _, _)
transcodeFrom(s, specialIn, specialOut, i, ret) ==
    IF i > Len(s) THEN NoError(ToUpper(ret))
    ELSE IF s[i] = specialIn
         THEN transcodeFrom(s, specialIn, specialOut, i + 1, Append(ret, specialOut))
    ELSE IF IsUpper(s[i]) \/ IsLower(s[i])
         THEN transcodeFrom(s, specialIn, specialOut, i + 1, Append(ret, s[i]))
    ELSE Errorf

\* transcode that returns the bytes it kept without upper-casing them.
RECURSIVE transcode_KeepCase(_, _, _)
transcode_KeepCase(s, specialIn, specialOut) ==
    IF s = <<>> THEN NoError(<<>>)
    ELSE LET rest == transcode_KeepCase(Tail(s), specialIn, specialOut)
             c == Head(s)
         IN  IF rest.err \/ ~(c = specialIn \/ IsUpper(c) \/ IsLower(c)) THEN Errorf
             ELSE NoError(<<IF c = specialIn THEN specialOut ELSE c>> \o rest.s)

\* transcode(s, specialIn, specialOut): the string and whether it is an error.
transcode(s, specialIn, specialOut) ==
    transcodeFrom(s, specialIn, specialOut, 1, <<>>)

envEncode(s) == transcode(s, "-", "_")
envDecode(s) == transcode(s, "_", "-")

\* os.Getenv(name): the value of the first variable with the name, the
\* empty string when there is none.
Getenv(env, name) ==
    LET S == {j \in 1..Len(env) : env[j].name = name}
    IN  IF S = {} THEN <<>>
        ELSE env[CHOOSE j \in S : \A i \in S : j <= i].value

\* os.Setenv(name, value) with a name and a value the system accepts: the
\* variable is replaced where it stands, or added at the end.
Setenv(env, name, value) ==
    LET S == {j \in 1..Len(env) : env[j].name = name}
    IN  IF S = {} THEN Append(env, [name |-> name, value |-> value])
        ELSE [j \in 1..Len(env) |->
                IF j \in S THEN [name |-> name, value |-> value] ELSE env[j]]

\* One string of os.Environ(): "name=value".
EnvString(e) == e.name \o <<"=">> \o e.value

\* strings.HasPrefix(s, prefix).
HasPrefix(s, prefix) ==
    Len(s) >= Len(prefix) /\ SubSeq(s, 1, Len(prefix)) = prefix

\* strings.SplitN(s, sep, 2) for a one-byte sep: s alone when sep is not in
\* it, else the part before the first sep and the part after it.
SplitN2(s, sep) ==
    LET i == IndexFrom(s, sep, 1)
    IN  IF i > Len(s) THEN <<s>>
        ELSE <<SubSeq(s, 1, i - 1), SubSeq(s, i + 1, Len(s))>>

\* The result of a carrier method: whether it panicked, the environment
\* afterwards, and what it returned.
Returned(env, ret) == [panic |-> FALSE, env |-> env, ret |-> ret]
Panicked(env) == [panic |-> TRUE, env |-> env, ret |-> <<>>]

\* Get that reads the variable named by the prefix and the key as given.
EnvironCarrier_Get_Verbatim(env, key) ==
    Returned(env, Getenv(env, EnvironCarrierPrefix \o key))

\* EnvironCarrier.Get(key).
EnvironCarrier_Get(env, key) ==
    LET envKey == envEncode(key)
    IN  IF envKey.err THEN Panicked(env)
        ELSE Returned(env, Getenv(env, EnvironCarrierPrefix \o envKey.s))

\* Set that writes the variable before it reports a key it cannot encode.
EnvironCarrier_Set_WriteFirst(env, key, value) ==
    LET envKey == envEncode(key)
        written == Setenv(env, EnvironCarrierPrefix \o ToUpper(key), value)
    IN  IF envKey.err THEN Panicked(written) ELSE Returned(written, <<>>)

\* EnvironCarrier.Set(key, value).
EnvironCarrier_Set(env, key, value) ==
    LET envKey == envEncode(key)
    IN  IF envKey.err THEN Panicked(env)
        ELSE Returned(Setenv(env, EnvironCarrierPrefix \o envKey.s, value), <<>>)

\* The loop of EnvironCarrier.Keys from variable i on.  An index out of the
\* range of a SplitN result is a panic.
RECURSIVE KeysFrom(_, _, _)
KeysFrom(env, i, ret) ==
    IF i > Len(env) THEN Returned(env, ret)
    ELSE IF ~HasPrefix(EnvString(env[i]), EnvironCarrierPrefix)
         THEN KeysFrom(env, i + 1, ret)
    ELSE LET envName == SplitN2(EnvString(env[i]), "=")[1]
             parts == SplitN2(envName, "_")
         IN  IF Len(parts) < 2 THEN Panicked(env)
             ELSE IF parts[2] = <<>> THEN KeysFrom(env, i + 1, ret)
             ELSE LET key == envDecode(parts[2])
                  IN  IF key.err THEN KeysFrom(env, i + 1, ret)
                      ELSE KeysFrom(env, i + 1, Append(ret, key.s))

\* EnvironCarrier.Keys().
EnvironCarrier_Keys(env) == KeysFrom(env, 1, <<>>)

\* MapCarrierAsEnviron(mc), the range over the map visiting its keys in the
\* given order.
MapCarrierAsEnviron(mc, order) ==
    [i \in 1..Len(order) |->
        EnvironCarrierPrefix \o order[i] \o <<"=">> \o mc[order[i]]]

\* The environment of a process started with the given "name=value" strings.
ProcessEnviron(strs) ==
    [i \in 1..Len(strs) |->
        LET parts == SplitN2(strs[i], "=")
        IN  [name |-> parts[1], value |-> IF Len(parts) = 2 THEN parts[2] ELSE <<>>]]

(***************************************************************************)
(* The environment carrier as a state machine: a process starts with an    *)
(* environment it inherited, or is launched by a parent with the list      *)
(* MapCarrierAsEnviron returned, and calls the carrier's methods; a test   *)
(* calls envEncode and envDecode on strings of its own.                    *)
(***************************************************************************)

\* The longest string drawn from the alphabet as an argument of transcode.
MaxKeyLen == 2
\* The most EnvironCarrier.Set calls a process makes.
MaxEnvSets == 2

KeyAlphabet == {"a", "B", "-", "_", "1"}

RECURSIVE KeysUpTo(_)
KeysUpTo(n) ==
    IF n = 0 THEN {<<>>}
    ELSE LET shorter == KeysUpTo(n - 1) IN
         shorter \cup {Append(t, c) : t \in shorter, c \in KeyAlphabet}

\* The keys and names of the tests (unnamed/part_002).
TestStrings ==
    {Chars("hello_there"), Chars("hello-there"), Chars("HELLO_THERE"),
     Chars("uber-trace-id"), Chars("sPoNgEbOb"), Chars("SPIDERMAN")}

TranscodeInputs == KeysUpTo(MaxKeyLen) \cup TestStrings

\* The keys the carrier's methods are called with.
SetKeys ==
    {Chars("uber-trace-id"), Chars("sPoNgEbOb"), Chars("SPONGEBOB"),
     Chars("a_b"), Chars("k1"), <<>>}
GetKeys == SetKeys \cup {Chars("FOO"), Chars("SPIDERMAN"), Chars("traceparent")}
EnvValues == {Chars("12345"), Chars("xyzzy")}

Variable(name, value) == [name |-> Chars(name), value |-> Chars(value)]

\* The environments a process inherits: some hold variables with the
\* carrier's prefix that no Set call wrote.
InheritedEnvirons ==
    {<<>>,
     <<Variable("PATH", "/bin")>>,
     <<Variable("OTELTEXTMAP_", "bare")>>,
     <<Variable("OTELTEXTMAP_foo", "lower")>>,
     <<Variable("OTELTEXTMAP_a-b", "hyphen")>>,
     <<Variable("OTELTEXTMAP_K1", "digit")>>,
     <<Variable("OTELTEXTMAP_A_B", "ab")>>,
     <<Variable("OTELTEXTMAP_foo", "lower"), Variable("OTELTEXTMAP_FOO", "upper")>>,
     <<Variable("PATH", "/bin"), Variable("OTELTEXTMAP_", "bare"),
       Variable("OTELTEXTMAP_a-b", "hyphen"), Variable("OTELTEXTMAP_K1", "digit"),
       Variable("OTELTEXTMAP_A_B", "ab"), Variable("OTELTEXTMAP_SPONGEBOB", "old")>>}

\* The carriers a parent process injects into before it launches a child.
MapCarriers ==
    {(Chars("uber-trace-id") :> Chars("12345")),
     (Chars("traceparent") :> Chars("xyzzy")),
     (Chars("uber-trace-id") :> Chars("12345")) @@ (Chars("traceparent") :> Chars("xyzzy")),
     (Chars("FOO") :> Chars("xyzzy"))}

\* The orders in which a range over the map can visit its keys.
Orders(mc) ==
    {o \in [1..Cardinality(DOMAIN mc) -> DOMAIN mc] :
        \A i, j \in DOMAIN o : i # j => o[i] # o[j]}

InitEnv ==
    /\ CodecIdle
    /\ KafkaIdle
    /\ SetupIdle
    /\ environ \in InheritedEnvirons
    /\ eop = [op |-> "none"]
    /\ launch = <<>>
    /\ nsets = 0

\* A parent runs a child with cmd.Env = MapCarrierAsEnviron(mc).
Launch(m) ==
    /\ eop.op = "none"
    /\ environ = <<>>
    /\ launch = <<>>
    /\ \E o \in Orders(m) : environ' = ProcessEnviron(MapCarrierAsEnviron(m, o))
    /\ launch' = <<m>>
    /\ eop' = [op |-> "Launch"]
    /\ UNCHANGED <<nsets, codecVars, kafkaVars, setupVars>>

EnvSet(k, v) ==
    /\ eop.op \in {"none", "Launch", "Set"}
    /\ nsets < MaxEnvSets
    /\ LET r == EnvironCarrier_Set(environ, k, v)
       IN  /\ environ' = r.env
           /\ eop' = [op |-> "Set", key |-> k, value |-> v, panic |-> r.panic,
                      before |-> environ]
    /\ nsets' = nsets + 1
    /\ UNCHANGED <<launch, codecVars, kafkaVars, setupVars>>

\* A read leaves the environment as it is, so reads are taken one at a time,
\* each after the start of the process or after a write; after records the
\* call before the read.
EnvGet(k) ==
    /\ eop.op \in {"none", "Launch", "Set"}
    /\ LET r == EnvironCarrier_Get(environ, k)
       IN  /\ environ' = r.env
           /\ eop' = [op |-> "Get", key |-> k, panic |-> r.panic, ret |-> r.ret,
                      after |-> eop]
    /\ UNCHANGED <<launch, nsets, codecVars, kafkaVars, setupVars>>

EnvKeys ==
    /\ eop.op \in {"none", "Launch", "Set"}
    /\ LET r == EnvironCarrier_Keys(environ)
       IN  /\ environ' = r.env
           /\ eop' = [op |-> "Keys", panic |-> r.panic, ret |-> r.ret,
                      after |-> eop]
    /\ UNCHANGED <<launch, nsets, codecVars, kafkaVars, setupVars>>

\* A test, in a process with an empty environment, calls envEncode(s).
DoEnvEncode(str) ==
    /\ eop.op \in {"none", "envEncode", "envDecode"}
    /\ environ = <<>>
    /\ eop' = [op |-> "envEncode", arg |-> str, ret |-> envEncode(str)]
    /\ UNCHANGED <<environ, launch, nsets, codecVars, kafkaVars, setupVars>>

\* A test calls envDecode(s); of records the key when s is the string the
\* call of envEncode just before returned for it.
DoEnvDecode(str) ==
    /\ eop.op \in {"none", "envEncode", "envDecode"}
    /\ environ = <<>>
    /\ eop' = [op |-> "envDecode", arg |-> str, ret |-> envDecode(str),
               of |-> IF eop.op = "envEncode" /\ ~eop.ret.err /\ eop.ret.s = str
                      THEN <<eop.arg>> ELSE <<>>]
    /\ UNCHANGED <<environ, launch, nsets, codecVars, kafkaVars, setupVars>>

NextEnv ==
    \/ \E m \in MapCarriers : Launch(m)
    \/ \E k \in SetKeys, v \in EnvValues : EnvSet(k, v)
    \/ \E k \in GetKeys : EnvGet(k)
    \/ EnvKeys
    \/ \E str \in TranscodeInputs : DoEnvEncode(str)
    \/ \E str \in TranscodeInputs : DoEnvDecode(str)

SpecEnv == InitEnv /\ [][NextEnv]_vars

IsLetter(c) == IsUpper(c) \/ IsLower(c)
LettersAnd(str, c) == \A i \in 1..Len(str) : IsLetter(str[i]) \/ str[i] = c
HasLowerCase(str) == \E i \in 1..Len(str) : IsLower(str[i])
Elements(seq) == {seq[i] : i \in 1..Len(seq)}

\* envDecode has been applied to the string envEncode returned for a key of
\* letters and hyphens.
DecodedEncoded ==
    /\ eop.op = "envDecode"
    /\ eop.of # <<>>
    /\ LettersAnd(eop.of[1], "-")

\* C14 as stated: for every key of ASCII letters and hyphens envEncode
\* succeeds and envDecode(envEncode(key)) is the key itself.
C14_RoundTripIsIdentity ==
    /\ eop.op = "envEncode" /\ LettersAnd(eop.arg, "-") => ~eop.ret.err
    /\ DecodedEncoded => ~eop.ret.err /\ eop.ret.s = eop.of[1]

\* C14: for every key of ASCII letters and hyphens envEncode succeeds and
\* envDecode(envEncode(key)) is the key with its letters in upper case, which
\* is the key itself exactly when the key has no lower-case letter.
C14_RoundTripUpperCases ==
    /\ eop.op = "envEncode" /\ LettersAnd(eop.arg, "-") => ~eop.ret.err
    /\ DecodedEncoded =>
         /\ ~eop.ret.err
         /\ eop.ret.s = ToUpper(eop.of[1])
         /\ eop.ret.s = eop.of[1] <=> ~HasLowerCase(eop.of[1])

\* envEncode("hello-there") was decoded again, to "HELLO-THERE".
C14_Witness ==
    /\ DecodedEncoded
    /\ eop.of[1] = Chars("hello-there")
    /\ eop.arg = Chars("HELLO_THERE")
    /\ eop.ret = NoError(Chars("HELLO-THERE"))

\* C15: envEncode of a key with a character that is no ASCII letter and no
\* hyphen is an error, envDecode of a name with a character that is no ASCII
\* letter and no underscore is an error, and EnvironCarrier.Set with such a
\* key panics and leaves the process environment as it was.
C15_IllegalKeyWritesNothing ==
    /\ eop.op = "envEncode" /\ ~LettersAnd(eop.arg, "-") => eop.ret.err
    /\ eop.op = "envDecode" /\ ~LettersAnd(eop.arg, "_") => eop.ret.err
    /\ eop.op = "Set" /\ ~LettersAnd(eop.key, "-")
         => eop.panic /\ environ = eop.before

\* Set with the key "a_b" has panicked in a process that holds variables,
\* one of them under the prefix.
C15_Witness ==
    /\ eop.op = "Set"
    /\ eop.key = Chars("a_b")
    /\ eop.panic
    /\ \E i \in 1..Len(environ) : HasPrefix(environ[i].name, EnvironCarrierPrefix)
    /\ environ = eop.before

\* The call before the read was Set(k, v) with a non-empty key k of letters
\* and hyphens.
AfterSet ==
    /\ eop.op \in {"Get", "Keys"}
    /\ eop.after.op = "Set"
    /\ eop.after.key # <<>>
    /\ LettersAnd(eop.after.key, "-")

\* Some variable's name is the prefix and the encoded key, in any letter case.
HasVariableFor(k) ==
    /\ ~envEncode(k).err
    /\ \E i \in 1..Len(environ) :
         ToUpper(environ[i].name) = EnvironCarrierPrefix \o envEncode(k).s

C19_LaunchedChildReadsCarrier ==
    /\ eop.op = "Launch" =>
         LET m == launch[1]
         IN  /\ Len(environ) = Cardinality(DOMAIN m)
             /\ \A k \in DOMAIN m : \E i \in 1..Len(environ) :
                  /\ ~envEncode(k).err
                  /\ environ[i].name = EnvironCarrierPrefix \o envEncode(k).s
                  /\ environ[i].value = m[k]
    /\ eop.op = "Get" /\ eop.after.op = "Launch" /\ eop.key \in DOMAIN launch[1]
         => ~eop.panic /\ eop.ret = launch[1][eop.key]

\* The variables Keys() is to list: those under the prefix whose remaining
\* name is not empty and is made of letters and underscores.
RECURSIVE Enumerated(_)
Enumerated(env) ==
    IF env = <<>> THEN <<>>
    ELSE LET e == Head(env)
             rest == SubSeq(e.name, Len(EnvironCarrierPrefix) + 1, Len(e.name))
         IN  IF HasPrefix(e.name, EnvironCarrierPrefix) /\ rest # <<>>
                /\ LettersAnd(rest, "_")
             THEN <<e>> \o Enumerated(Tail(env))
             ELSE Enumerated(Tail(env))

\* C20: in every environment Keys() returns without a panic, lists one key
\* for each variable under the prefix whose remaining name is not empty and
\* reverse-transcodes, and Get of each key it lists reads the variable the
\* key was listed for and returns that variable's value.
C20_KeysAgreeWithGet ==
    eop.op = "Keys" =>
        LET vs == Enumerated(environ)
        IN  /\ ~eop.panic
            /\ Len(eop.ret) = Len(vs)
            /\ \A i \in 1..Len(vs) :
                 EnvironCarrier_Get(environ, eop.ret[i]) = Returned(environ, vs[i].value)

(***************************************************************************)
(* The provider setup (setup.go): OtelSetup, JaegerSetup, and the earlier  *)
(* JaegerSetup that reports through an error printer.  A call applies its  *)
(* option functions in order, runs its body, and then its two deferred     *)
(* functions, last deferred first.                                         *)
(***************************************************************************)

EnvGateCue == "true"

SetupFunctions == {"OtelSetup", "JaegerSetup", "JaegerSetup (errPrinter)"}

\* The option functions: WithExporter stands for WithOtlpExporter and
\* WithAgentExporter, WithNilLogger for WithLogger(nil).
Options ==
    {"WithEnvGate", "WithLogger", "WithNilLogger", "WithExporter",
     "WithRemoteSampler", "WithGeneralPropagatorSetup"}

\* WithLogger takes a *slog.Logger, which can be nil, in OtelSetup only.
OptionsOf(fn) == IF fn = "OtelSetup" THEN Options ELSE Options \ {"WithNilLogger"}

\* What EnvGateName and the sampling URL variable hold in the environment.
GateValues == {"", "true", "false"}
SamplingURLs == {"", "http://host/{}", "http://host/sampling"}

\* The most option functions passed to one call.
MaxOptions == 2

RECURSIVE OptionListsUpTo(_, _)
OptionListsUpTo(fn, n) ==
    IF n = 0 THEN {<<>>}
    ELSE LET shorter == OptionListsUpTo(fn, n - 1) IN
         shorter \cup {Append(w, o) : w \in shorter, o \in OptionsOf(fn)}

\* opts as the call builds it before it applies an option.
NewSetupConfig == [envGate |-> FALSE, logger |-> "default", propagator |-> FALSE]

\* fn(opts) for one option function: the config afterwards and whether the
\* function panicked.  exporterFails says whether the exporter's
\* constructor returns an error.  The earlier WithRemoteSampler fills the {}
\* macro in, the later ones panic on it.
ApplyOption(fn, o, opts, url, exporterFails) ==
    CASE o = "WithEnvGate" -> [panic |-> FALSE, opts |-> [opts EXCEPT !.envGate = TRUE]]
      [] o = "WithLogger" -> [panic |-> FALSE, opts |-> [opts EXCEPT !.logger = "custom"]]
      [] o = "WithNilLogger" -> [panic |-> FALSE, opts |-> [opts EXCEPT !.logger = "nil"]]
      [] o = "WithGeneralPropagatorSetup" ->
            [panic |-> FALSE, opts |-> [opts EXCEPT !.propagator = TRUE]]
      [] o = "WithExporter" -> [panic |-> exporterFails, opts |-> opts]
      [] o = "WithRemoteSampler" ->
            [panic |-> \/ url = "http://host/{}" /\ fn # "JaegerSetup (errPrinter)"
                       \/ url # "" /\ opts.logger = "nil",
             opts |-> opts]

\* The gate test after the options: whether the call returns early.
GateClosed(fn, opts, gate) ==
    /\ opts.envGate
    /\ IF fn = "OtelSetup" THEN gate = EnvGateCue ELSE gate # EnvGateCue

\* The deferred function with recover(): the call's state after it.  A call
\* of a method of a nil *slog.Logger is a new panic.
RecoverDefer(c) ==
    IF ~c.panicking THEN c
    ELSE CASE c.fn = "OtelSetup" ->
                IF c.opts.logger = "nil" THEN c
                ELSE [c EXCEPT !.panicking = FALSE, !.logged = TRUE]
           [] c.fn = "JaegerSetup" ->
                [c EXCEPT !.panicking = FALSE, !.logged = TRUE]
           [] c.fn = "JaegerSetup (errPrinter)" ->
                [c EXCEPT !.panicking = FALSE, !.logged = TRUE, !.err = "error"]

\* The first deferred function when it fills in the provider only.
FillDefer_ProviderOnly(c) ==
    [c EXCEPT !.tp = IF c.tp = "nil" THEN "no-op provider" ELSE c.tp]

\* The first deferred function: no-ops in the place of nils.
FillDefer(c) ==
    [c EXCEPT !.tp = IF c.tp = "nil" THEN "no-op provider" ELSE c.tp,
              !.closer = IF c.closer = "nil" THEN "no-op closer" ELSE c.closer]

\* A caller calls fn(name, with...) in an environment.
SetupCall(fn, with, gate, url) ==
    /\ setup.pc = "idle"
    /\ setup' = [pc |-> "options", fn |-> fn, with |-> with, gate |-> gate,
                 url |-> url, opts |-> NewSetupConfig,
                 tp |-> "nil", closer |-> "nil", err |-> "nil",
                 panicking |-> FALSE, optionPanicked |-> FALSE, logged |-> FALSE,
                 path |-> "options", closed |-> "no"]
    /\ UNCHANGED <<codecVars, kafkaVars, envVars>>

\* The loop applies the next option function.
SetupOption ==
    /\ setup.pc = "options"
    /\ setup.with # <<>>
    /\ \E exporterFails \in BOOLEAN :
         LET r == ApplyOption(setup.fn, Head(setup.with), setup.opts, setup.url,
                              exporterFails)
         IN  setup' = IF r.panic
                      THEN [setup EXCEPT !.pc = "recover", !.panicking = TRUE,
                                         !.optionPanicked = TRUE, !.path = "panic"]
                      ELSE [setup EXCEPT !.with = Tail(setup.with), !.opts = r.opts]
    /\ UNCHANGED <<codecVars, kafkaVars, envVars>>

\* The body after the loop: the gate, and behind it the provider and its
\* closer.  lookupFails says whether getIPAddress or os.Hostname returns an
\* error, which the body logs.
SetupBody ==
    /\ setup.pc = "options"
    /\ setup.with = <<>>
    /\ \E lookupFails \in BOOLEAN :
         setup' =
           IF GateClosed(setup.fn, setup.opts, setup.gate)
           THEN [setup EXCEPT !.pc = "recover", !.path = "gate"]
           ELSE IF lookupFails /\ setup.fn # "JaegerSetup (errPrinter)"
                   /\ setup.opts.logger = "nil"
           THEN [setup EXCEPT !.pc = "recover", !.panicking = TRUE, !.path = "body panic"]
           ELSE [setup EXCEPT !.pc = "recover", !.tp = "provider",
                              !.closer = "shutdown closer", !.path = "normal"]
    /\ UNCHANGED <<codecVars, kafkaVars, envVars>>

SetupRecover ==
    /\ setup.pc = "recover"
    /\ setup' = [RecoverDefer(setup) EXCEPT !.pc = "fill"]
    /\ UNCHANGED <<codecVars, kafkaVars, envVars>>

\* After the first deferred function the call returns, or the panic that
\* is still under way reaches the caller.
SetupFill ==
    /\ setup.pc = "fill"
    /\ setup' = [FillDefer(setup) EXCEPT
                    !.pc = IF setup.panicking THEN "panicked" ELSE "returned"]
    /\ UNCHANGED <<codecVars, kafkaVars, envVars>>

\* The caller calls the closer it got.  shutdownFails says whether
\* tp.Shutdown returns an error.
SetupClose ==
    /\ setup.pc = "returned"
    /\ \E shutdownFails \in BOOLEAN :
         setup' = [setup EXCEPT
                    !.pc = "closed",
                    !.closed = CASE setup.closer = "nil" -> "panic"
                                 [] setup.closer = "no-op closer" -> "nil"
                                 [] setup.closer = "shutdown closer" ->
                                      IF shutdownFails THEN "error" ELSE "nil"]
    /\ UNCHANGED <<codecVars, kafkaVars, envVars>>

InitSetup ==
    /\ CodecIdle
    /\ KafkaIdle
    /\ EnvIdle
    /\ SetupIdle

NextSetup ==
    \/ \E fn \in SetupFunctions, gate \in GateValues, url \in SamplingURLs :
         \E with \in OptionListsUpTo(fn, MaxOptions) : SetupCall(fn, with, gate, url)
    \/ SetupOption
    \/ SetupBody
    \/ SetupRecover
    \/ SetupFill
    \/ SetupClose

SpecSetup == InitSetup /\ [][NextSetup]_vars

\* The call has returned to its caller.
SetupReturned == setup.pc \in {"returned", "closed"}

\* C17: whenever OtelSetup or JaegerSetup returns, after its body ran to
\* the end, after the closed gate, or after an option function panicked,
\* the provider and the closer it returns are not nil, calling the closer
\* does not panic, and the closer returned in the place of nil returns nil.
C17_NeverReturnsNils ==
    SetupReturned =>
        /\ setup.tp # "nil"
        /\ setup.closer # "nil"
        /\ setup.path \in {"gate", "panic", "body panic"} =>
             setup.tp = "no-op provider" /\ setup.closer = "no-op closer"
        /\ setup.pc = "closed" =>
             /\ setup.closed # "panic"
             /\ setup.closer = "no-op closer" => setup.closed = "nil"

\* A call whose option function panicked has returned the no-op provider,
\* and the closer it returned was called and returned nil.
C17_Witness ==
    /\ setup.pc = "closed"
    /\ setup.path = "panic"
    /\ setup.tp = "no-op provider"
    /\ setup.closer = "no-op closer"
    /\ setup.closed = "nil"

\* C18: when an option function panics, the setup call returns, the panic
\* does not reach the caller, and the err it returns is not nil.
C18_OptionPanicIsReturnedError ==
    setup.pc \in {"returned", "panicked", "closed"} /\ setup.optionPanicked
        => SetupReturned /\ setup.err # "nil"

(***************************************************************************)
(* Two callers of Set on one message-header carrier, without a lock.  Set  *)
(* is a scan of c.hdrs, and then either one store into the element found   *)
(* or the statement c.hdrs = append(c.hdrs, header), which loads c.hdrs,   *)
(* appends, and stores the result: three steps another caller's steps can  *)
(* come between.                                                           *)
(***************************************************************************)

Callers == {1, 2}
Other(c) == 3 - c

\* The keys the two callers set, and the value each caller writes.
RaceKeys == HeaderKeys \cup {"baggage"}
RaceValue(c) == IF c = 1 THEN "v1" ELSE "v2"

\* append that puts the new header in front.
appendHeader_InFront(H, k, v) == <<[Key |-> k, Value |-> ByteSlice(v)]>> \o H

\* append(c.hdrs, Header{Key: k, Value: []byte(v)}) on the slice H loaded.
appendHeader(H, k, v) == Append(H, [Key |-> k, Value |-> ByteSlice(v)])

\* c.hdrs[i].Value = []byte(v), on the slice as it is at the store.
storeValue(H, i, v) == [H EXCEPT ![i].Value = ByteSlice(v)]

\* The slice c.hdrs holds after the store of append's result.  When the
\* slice loaded had room, append wrote the header into the array the
\* carrier still uses, behind the n headers loaded, and the headers before
\* it are as that array holds them now; when it had none, append copied
\* the headers at the load.
storeAppended(now, loaded, appended, shared) ==
    IF shared /\ Len(now) >= Len(loaded)
    THEN SubSeq(now, 1, Len(loaded)) \o <<appended[Len(appended)]>>
    ELSE appended

Waiting == [pc |-> "waiting"]

\* Two goroutines are handed one carrier over the headers of a message.
InitKafkaRace ==
    /\ CodecIdle
    /\ EnvIdle
    /\ SetupIdle
    /\ hdrs \in InitialHeaders
    /\ kind \in {"kafka", "franz"}
    /\ kop = [op |-> "none"]
    /\ sets = <<>>
    /\ race = [on |-> TRUE, h0 |-> hdrs, overlap |-> FALSE, order |-> <<>>,
               calls |-> [c \in Callers |-> Waiting]]

\* Caller c enters Set(k, v) and runs the range loop over c.hdrs.
RaceScan(c, k) ==
    /\ race.on
    /\ race.calls[c].pc = "waiting"
    /\ LET i == FirstFrom(hdrs, k, 1)
       IN  race' = [race EXCEPT
                     !.calls[c] = [pc |-> IF i # 0 THEN "found" ELSE "append",
                                   k |-> k, v |-> RaceValue(c), i |-> i,
                                   loaded |-> <<>>],
                     !.overlap = @ \/ race.calls[Other(c)].pc \notin {"waiting", "done"},
                     !.order = Append(@, c)]
    /\ UNCHANGED <<hdrs, kind, kop, sets, codecVars, envVars, setupVars>>

\* Caller c, having found the key at i, stores the value and returns.
RaceUpdate(c) ==
    /\ race.on
    /\ race.calls[c].pc = "found"
    /\ hdrs' = storeValue(hdrs, race.calls[c].i, race.calls[c].v)
    /\ race' = [race EXCEPT !.calls[c].pc = "done"]
    /\ UNCHANGED <<kind, kop, sets, codecVars, envVars, setupVars>>

\* Caller c, having found no such key, loads c.hdrs for append.
RaceLoad(c) ==
    /\ race.on
    /\ race.calls[c].pc = "append"
    /\ race' = [race EXCEPT !.calls[c].pc = "loaded", !.calls[c].loaded = hdrs]
    /\ UNCHANGED <<hdrs, kind, kop, sets, codecVars, envVars, setupVars>>

\* Caller c stores append's result in c.hdrs and returns.
RaceStore(c) ==
    /\ race.on
    /\ race.calls[c].pc = "loaded"
    /\ \E shared \in BOOLEAN :
         hdrs' = storeAppended(hdrs, race.calls[c].loaded,
                               appendHeader(race.calls[c].loaded, race.calls[c].k,
                                            race.calls[c].v),
                               shared)
    /\ race' = [race EXCEPT !.calls[c].pc = "done"]
    /\ UNCHANGED <<kind, kop, sets, codecVars, envVars, setupVars>>

NextKafkaRace ==
    \/ \E c \in Callers, k \in RaceKeys : RaceScan(c, k)
    \/ \E c \in Callers : RaceUpdate(c)
    \/ \E c \in Callers : RaceLoad(c)
    \/ \E c \in Callers : RaceStore(c)

SpecKafkaRace == InitKafkaRace /\ [][NextKafkaRace]_vars

\* Both callers have returned from Set.
BothDone == race.on /\ \A c \in Callers : race.calls[c].pc = "done"

\* The two callers set two different keys, neither of them a key of the
\* headers the carrier was built over.
TwoNewKeys ==
    /\ race.calls[1].k # race.calls[2].k
    /\ \A c \in Callers : IndicesOf(race.h0, race.calls[c].k) = {}

\* Set as one step, on the carrier of the kind at hand.
AtomicSet(H, c) ==
    IF kind = "kafka" THEN kafkaCarrier_Set(H, race.calls[c].k, race.calls[c].v)
    ELSE franzKafkaCarrier_Set(H, race.calls[c].k, race.calls[c].v)

\* C21: when the two Set calls run one after the other, in either order,
\* the headers afterwards are those of the two calls made in that order,
\* and hold both keys; and whatever the interleaving, two calls with two
\* different new keys leave the first headers in place and add one header
\* or two, each with a key of the two.  That an interleaving leaves only
\* one of the two keys is the state C21_Witness describes.
C21_SerializedSetsKeepBoth ==
    BothDone =>
        /\ ~race.overlap =>
             /\ hdrs = AtomicSet(AtomicSet(race.h0, race.order[1]), race.order[2])
             /\ \A c \in Callers : IndicesOf(hdrs, race.calls[c].k) # {}
        /\ TwoNewKeys =>
             /\ Len(hdrs) \in {Len(race.h0) + 1, Len(race.h0) + 2}
             /\ SubSeq(hdrs, 1, Len(race.h0)) = race.h0
             /\ \A j \in (Len(race.h0) + 1)..Len(hdrs) :
                  \E c \in Callers :
                    hdrs[j] = [Key |-> race.calls[c].k,
                               Value |-> ByteSlice(race.calls[c].v)]

\* Both callers have returned from Set with two different new keys, their
\* calls overlapped, and the carrier holds only one of the two keys.
C21_Witness ==
    /\ BothDone
    /\ TwoNewKeys
    /\ race.overlap
    /\ Len(hdrs) = Len(race.h0) + 1
    /\ \E c \in Callers :
         /\ IndicesOf(hdrs, race.calls[c].k) # {}
         /\ IndicesOf(hdrs, race.calls[Other(c)].k) = {}

====
